---- MODULE Spec2Model ----
(***************************************************************************)
(* VisionNoteAI front end (frontend/src/App.jsx): the App component's      *)
(* state and handlers, the HTML note parser and the PDF layout loop.       *)
(*                                                                         *)
(* Strings that the code inspects character by character (the topic, the   *)
(* element text) are sequences of one-character strings.  Messages and     *)
(* MIME types, which the code only compares or stores, are TLA+ strings.   *)
(***************************************************************************)
EXTENDS Integers, Sequences, FiniteSets, TLC

VARIABLES
    files,          \* useState([])  : the selected File objects, in order
    topic,          \* useState('')  : the topic text
    notes,          \* useState('')  : the combined notes, one entry per cleanedNotes + '\n'
    loading,        \* useState(false)
    error,          \* useState('')
    fileError,      \* useState('')
    previewUrls,    \* useState([])  : object URLs of the image previews
    nextUrl,        \* the next image object URL that URL.createObjectURL hands out
    liveUrls,       \* image object URLs created and not revoked
    urlBlobs,       \* the blob URL store: the file each live image URL resolves to
    pdfUrlsLive,    \* number of PDF object URLs created and not revoked
    submits,        \* the handleSubmit calls suspended at their await
    downloads,      \* the handleDownload calls suspended at their await
    downloadName,   \* link.download of the last download link clicked
    pdfDoc,         \* the document generatePDF last built
    docBody,        \* doc.body.children handed to parseNotesContent
    parsedContent,  \* what parseNotesContent returned for docBody
    event           \* the handler that ran in the last step, with its input

vars == <<files, topic, notes, loading, error, fileError, previewUrls, nextUrl,
          liveUrls, urlBlobs, pdfUrlsLive, submits, downloads, downloadName, pdfDoc,
          docBody, parsedContent, event>>

fileVars == <<files, previewUrls, nextUrl, liveUrls, urlBlobs>>
docVars  == <<pdfDoc, docBody, parsedContent>>

(***************************************************************************)
(* Bounds of the model.                                                    *)
(***************************************************************************)
MaxFiles     == 2   \* files held at once
MaxBatch     == 2   \* files offered by one selection or one paste
MaxUrls      == 3   \* image object URLs created in one run
MaxPdfUrls   == 1   \* PDF previews opened in one run
MaxDownloads == 1   \* handleDownload calls in flight at once
MaxSubmits   == 2   \* handleSubmit calls in flight at once

Range(s) == {s[i] : i \in 1..Len(s)}

RECURSIVE SeqsUpTo(_, _)
SeqsUpTo(S, n) ==
    IF n = 0 THEN {<<>>}
    ELSE LET shorter == SeqsUpTo(S, n - 1)
         IN  shorter \cup {Append(s, x) : s \in {t \in shorter : Len(t) = n - 1}, x \in S}

(***************************************************************************)
(* Files: a File is its MIME type and its size in bytes.                   *)
(***************************************************************************)
validTypes == {"image/jpeg", "image/jpg", "image/png"}

MaxFileSize == 5 * 1024 * 1024

\* The MIME types offered to the handlers, and those among them for which
\* type.indexOf('image') !== -1.
FileTypes  == {"image/png", "image/gif", "text/plain"}
ImageTypes == {"image/png", "image/gif"}

FileSizes == {MaxFileSize, MaxFileSize + 1}

FileInputs == [type : FileTypes, size : FileSizes]

BatchInputs == SeqsUpTo(FileInputs, MaxBatch)

PngFile == [type |-> "image/png", size |-> MaxFileSize]

IsImageItem(item) == item.type \in ImageTypes

(***************************************************************************)
(* String helpers: String.prototype.trim and toLowerCase.                  *)
(***************************************************************************)
WhiteSpace == {" ", "\t"}

RECURSIVE TrimLeft(_)
TrimLeft(s) ==
    IF s # <<>> /\ Head(s) \in WhiteSpace THEN TrimLeft(Tail(s)) ELSE s

RECURSIVE TrimRight(_)
TrimRight(s) ==
    IF s # <<>> /\ s[Len(s)] \in WhiteSpace
    THEN TrimRight(SubSeq(s, 1, Len(s) - 1))
    ELSE s

Trim(s) == TrimRight(TrimLeft(s))

LowerChar(c) ==
    CASE c = "A" -> "a"
      [] c = "B" -> "b"
      [] c = "S" -> "s"
      [] OTHER   -> c

ToLowerCase(s) == [i \in 1..Len(s) |-> LowerChar(s[i])]

(***************************************************************************)
(* Image previews.  createPreviewUrls makes one fresh object URL per file. *)
(* The effect of lines 28-32 is keyed on previewUrls: when a handler sets  *)
(* a new previewUrls array, React runs the previous render's cleanup,      *)
(* which revokes every URL of the previous array.                          *)
(***************************************************************************)
createPreviewUrls(fileList) == [i \in 1..Len(fileList) |-> nextUrl + (i - 1)]

PreviewCleanup(oldPreviewUrls) == Range(oldPreviewUrls)

RemoveAt(s, index) == SubSeq(s, 1, index - 1) \o SubSeq(s, index + 1, Len(s))

\* setFiles(newFiles); setPreviewUrls(createPreviewUrls(newFiles)), and the
\* re-render that follows.
SetFilesWithPreviews(newFiles) ==
    LET newPreviewUrls == createPreviewUrls(newFiles)
    IN  /\ nextUrl + Len(newFiles) - 1 <= MaxUrls
        /\ files' = newFiles
        /\ previewUrls' = newPreviewUrls
        /\ nextUrl' = nextUrl + Len(newFiles)
        /\ liveUrls' = (liveUrls \cup Range(newPreviewUrls)) \ PreviewCleanup(previewUrls)
        /\ urlBlobs' = [u \in liveUrls' |->
                           IF u \in Range(newPreviewUrls)
                           THEN newFiles[u - nextUrl + 1]
                           ELSE urlBlobs[u]]

(***************************************************************************)
(* handleFileChange: the validation loop and the handler.                  *)
(***************************************************************************)
RECURSIVE FileChangeLoop(_, _, _)
FileChangeLoop(selectedFiles, validFiles, err) ==
    IF selectedFiles = <<>> THEN [validFiles |-> validFiles, fileError |-> err]
    ELSE LET file == Head(selectedFiles)
         IN  IF file.type \notin validTypes
             THEN FileChangeLoop(Tail(selectedFiles), validFiles,
                                 "Please upload valid image files (JPG, JPEG, PNG)")
             ELSE IF file.size > MaxFileSize
             THEN FileChangeLoop(Tail(selectedFiles), validFiles,
                                 "One or more files exceed 5MB limit")
             ELSE FileChangeLoop(Tail(selectedFiles), Append(validFiles, file), err)

handleFileChange(selectedFiles) ==
    LET r == FileChangeLoop(selectedFiles, <<>>, "")
    IN  /\ Len(files) + Len(r.validFiles) <= MaxFiles
        /\ fileError' = r.fileError
        /\ IF Len(r.validFiles) > 0
           THEN SetFilesWithPreviews(files \o r.validFiles)
           ELSE UNCHANGED fileVars
        /\ event' = [op |-> "handleFileChange", batch |-> selectedFiles]
        /\ UNCHANGED <<topic, notes, loading, error, pdfUrlsLive, submits,
                       downloads, downloadName, docVars>>

(***************************************************************************)
(* handlePaste: the loop over clipboardData.items and the handler.  The    *)
(* state setters are batched, so of the setFileError calls the last wins.  *)
(***************************************************************************)
RECURSIVE PasteLoop(_, _, _, _)
PasteLoop(items, newFiles, hasAddedFiles, err) ==
    IF items = <<>>
    THEN [newFiles |-> newFiles, hasAddedFiles |-> hasAddedFiles, fileError |-> err]
    ELSE LET file == Head(items)
         IN  IF IsImageItem(file)
             THEN IF file.size > MaxFileSize
                  THEN PasteLoop(Tail(items), newFiles, hasAddedFiles,
                                 "File size exceeds 5MB limit")
                  ELSE PasteLoop(Tail(items), Append(newFiles, file), TRUE, err)
             ELSE PasteLoop(Tail(items), newFiles, hasAddedFiles, err)

PasteFileError(r) == IF r.hasAddedFiles THEN "" ELSE r.fileError

handlePaste(items) ==
    LET r == PasteLoop(items, files, FALSE, fileError)
    IN  /\ Len(r.newFiles) <= MaxFiles
        /\ fileError' = PasteFileError(r)
        /\ IF r.hasAddedFiles
           THEN SetFilesWithPreviews(r.newFiles)
           ELSE UNCHANGED fileVars
        /\ event' = [op |-> "handlePaste", batch |-> items, index |-> 0]
        /\ UNCHANGED <<topic, notes, loading, error, pdfUrlsLive, submits,
                       downloads, downloadName, docVars>>

(***************************************************************************)
(* removeFile(index): index is 1-based here.  The remove button exists     *)
(* once per entry of previewUrls.                                          *)
(***************************************************************************)
removeFile(index) ==
    /\ index \in 1..Len(previewUrls)
    /\ files' = RemoveAt(files, index)
    /\ previewUrls' = RemoveAt(previewUrls, index)
    /\ liveUrls' = (liveUrls \ {previewUrls[index]}) \ PreviewCleanup(previewUrls)
    /\ urlBlobs' = [u \in liveUrls' |-> urlBlobs[u]]
    /\ event' = [op |-> "removeFile", batch |-> <<>>, index |-> index]
    /\ UNCHANGED <<nextUrl, topic, notes, loading, error, fileError, pdfUrlsLive,
                   submits, downloads, downloadName, docVars>>

\* The topic input's onChange.
setTopic(value) ==
    /\ topic' = value
    /\ event' = [op |-> "setTopic", batch |-> <<>>, index |-> 0]
    /\ UNCHANGED <<fileVars, notes, loading, error, fileError, pdfUrlsLive,
                   submits, downloads, downloadName, docVars>>

(***************************************************************************)
(* handleSubmit.  A call runs to its first await in one step; each         *)
(* response resumes it.  A suspended call keeps the files and the topic of *)
(* the render that started it, the index i of the file whose request is in *)
(* flight (1-based) and combinedNotes.  A notes entry stands for the       *)
(* cleanedNotes + '\n' of one response: the file and the topic the request *)
(* carried, and the blocks its HTML parses to (see the layout below).      *)
(***************************************************************************)
MissingFiles(fileList) == Len(fileList) = 0

\* !topic in place of !topic.trim().
TopicBlank_NoTrim(t) == t = <<>>

TopicBlank(t) == Trim(t) = <<>>

\* A submit button that is never disabled.
SubmitDisabled_Never == FALSE

\* The submit button is disabled={loading}; a form whose default button is
\* disabled is not submitted.
SubmitDisabled == loading

\* A handleSubmit that leaves the displayed notes in place.
NotesOnSubmit_Keep == notes

\* setNotes('') before the first request.
NotesOnSubmit == <<>>

handleSubmit ==
    /\ ~SubmitDisabled
    /\ Len(submits) < MaxSubmits
    /\ IF MissingFiles(files)
       THEN /\ fileError' = "Please upload at least one image file"
            /\ UNCHANGED <<error, loading, notes, submits>>
       ELSE IF TopicBlank(topic)
       THEN /\ error' = "Please enter a subject/topic"
            /\ UNCHANGED <<fileError, loading, notes, submits>>
       ELSE /\ loading' = TRUE
            /\ error' = ""
            /\ notes' = NotesOnSubmit
            /\ submits' = Append(submits, [files |-> files, topic |-> topic,
                                           i |-> 1, combinedNotes |-> <<>>])
            /\ UNCHANGED fileError
    /\ event' = [op |-> "handleSubmit", batch |-> <<>>, index |-> 0]
    /\ UNCHANGED <<fileVars, topic, pdfUrlsLive, downloads, downloadName, docVars>>

\* The request of submits[k] resolves: the loop body after the await, then
\* either the next iteration's request or setNotes and the finally block.
SubmitResolved(k, content) ==
    /\ k \in 1..Len(submits)
    /\ LET op == submits[k]
           combinedNotes == Append(op.combinedNotes,
                                   [file |-> op.files[op.i], topic |-> op.topic,
                                    content |-> content])
       IN  /\ IF op.i < Len(op.files)
              THEN /\ submits' = [submits EXCEPT ![k] =
                                    [op EXCEPT !.i = op.i + 1,
                                               !.combinedNotes = combinedNotes]]
                   /\ UNCHANGED <<notes, loading>>
              ELSE /\ notes' = combinedNotes
                   /\ loading' = FALSE
                   /\ submits' = RemoveAt(submits, k)
           /\ event' = [op |-> "handleSubmit:resolved", batch |-> op.files,
                        index |-> op.i]
    /\ UNCHANGED <<fileVars, topic, error, fileError, pdfUrlsLive, downloads,
                   downloadName, docVars>>

\* err.response?.data?.error || 'Failed to generate notes. Please try again.'
SubmitErrorMessage(serverError) ==
    IF serverError # "" THEN serverError
    ELSE "Failed to generate notes. Please try again."

\* The request of submits[k] rejects (or the response has no notes string):
\* the catch block and the finally block.
SubmitRejected(k, serverError) ==
    /\ k \in 1..Len(submits)
    /\ error' = SubmitErrorMessage(serverError)
    /\ loading' = FALSE
    /\ submits' = RemoveAt(submits, k)
    /\ event' = [op |-> "handleSubmit:rejected", batch |-> submits[k].files,
                 index |-> submits[k].i]
    /\ UNCHANGED <<fileVars, topic, notes, fileError, pdfUrlsLive, downloads,
                   downloadName, docVars>>

ServerErrors == {"", "OCR failed"}

(***************************************************************************)
(* handleDownload.  The Download button is rendered only while notes is    *)
(* non-empty.  The file name is computed after the await from the topic of *)
(* the render that started the call.                                       *)
(***************************************************************************)
RECURSIVE SkipS(_)
SkipS(s) == IF s # <<>> /\ Head(s) = "s" THEN SkipS(Tail(s)) ELSE s

\* String.prototype.replace(/\\s+/g, '-') with the pattern as the source
\* spells it: an escaped backslash followed by one or more letters s.
RECURSIVE ReplacePattern(_)
ReplacePattern(s) ==
    IF s = <<>> THEN <<>>
    ELSE IF Head(s) = "\\" /\ Len(s) >= 2 /\ s[2] = "s"
    THEN <<"-">> \o ReplacePattern(SkipS(Tail(s)))
    ELSE <<Head(s)>> \o ReplacePattern(Tail(s))

NotesPdfSuffix == <<"-", "n", "o", "t", "e", "s", ".", "p", "d", "f">>

DownloadFileName(t) == ReplacePattern(ToLowerCase(t)) \o NotesPdfSuffix

handleDownload ==
    /\ notes # <<>>
    /\ IF MissingFiles(files) \/ TopicBlank(topic)
       THEN /\ error' = "Please upload an image and enter a topic first."
            /\ UNCHANGED downloads
       ELSE /\ Len(downloads) < MaxDownloads
            /\ downloads' = Append(downloads, [file |-> files[1], topic |-> topic])
            /\ UNCHANGED error
    /\ event' = [op |-> "handleDownload", batch |-> <<>>, index |-> 0]
    /\ UNCHANGED <<fileVars, topic, notes, loading, fileError, pdfUrlsLive,
                   submits, downloadName, docVars>>

\* The response arrives: createObjectURL, the link with its download name,
\* click, remove, revokeObjectURL.
DownloadResolved(k) ==
    /\ k \in 1..Len(downloads)
    /\ downloadName' = DownloadFileName(downloads[k].topic)
    /\ pdfUrlsLive' = (pdfUrlsLive + 1) - 1
    /\ downloads' = RemoveAt(downloads, k)
    /\ event' = [op |-> "handleDownload:resolved", batch |-> <<downloads[k].file>>,
                 index |-> 0]
    /\ UNCHANGED <<fileVars, topic, notes, loading, error, fileError, submits,
                   docVars>>

DownloadRejected(k) ==
    /\ k \in 1..Len(downloads)
    /\ error' = "Failed to download PDF. Please try again."
    /\ downloads' = RemoveAt(downloads, k)
    /\ event' = [op |-> "handleDownload:rejected", batch |-> <<downloads[k].file>>,
                 index |-> 0]
    /\ UNCHANGED <<fileVars, topic, notes, loading, fileError, pdfUrlsLive,
                   submits, downloadName, docVars>>

(***************************************************************************)
(* parseNotesContent.  An element of doc.body.children is its tagName and  *)
(* its child nodes in document order; a node is a text node or a child     *)
(* element, with its text.  textContent is the concatenation of the nodes' *)
(* text, children are the element nodes.                                   *)
(***************************************************************************)
TagLowerCase(tagName) ==
    CASE tagName = "H1" -> "h1"
      [] tagName = "H2" -> "h2"
      [] tagName = "H3" -> "h3"
      [] tagName = "P"  -> "p"
      [] tagName = "UL" -> "ul"
      [] tagName = "OL" -> "ol"
      [] OTHER          -> "div"

RECURSIVE textContent(_)
textContent(nodes) ==
    IF nodes = <<>> THEN <<>> ELSE Head(nodes).text \o textContent(Tail(nodes))

RECURSIVE children(_)
children(nodes) ==
    IF nodes = <<>> THEN <<>>
    ELSE IF Head(nodes).isElement THEN <<Head(nodes)>> \o children(Tail(nodes))
    ELSE children(Tail(nodes))

ListItems(element) ==
    LET lis == children(element.nodes)
    IN  [i \in 1..Len(lis) |-> Trim(lis[i].text)]

\* The 'ol' case returning the type of the 'ul' case.
parseElement_OlAsBullet(element) ==
    LET type == TagLowerCase(element.tagName)
        text == Trim(textContent(element.nodes))
    IN  CASE type = "h1" -> [type |-> "heading1", text |-> text, items |-> <<>>]
          [] type = "h2" -> [type |-> "heading2", text |-> text, items |-> <<>>]
          [] type = "h3" -> [type |-> "heading3", text |-> text, items |-> <<>>]
          [] type = "p"  -> [type |-> "paragraph", text |-> text, items |-> <<>>]
          [] type \in {"ul", "ol"} -> [type |-> "bulletList", text |-> <<>>,
                                       items |-> ListItems(element)]
          [] OTHER       -> [type |-> "paragraph", text |-> text, items |-> <<>>]

parseElement(element) ==
    LET type == TagLowerCase(element.tagName)
        text == Trim(textContent(element.nodes))
    IN  CASE type = "h1" -> [type |-> "heading1", text |-> text, items |-> <<>>]
          [] type = "h2" -> [type |-> "heading2", text |-> text, items |-> <<>>]
          [] type = "h3" -> [type |-> "heading3", text |-> text, items |-> <<>>]
          [] type = "p"  -> [type |-> "paragraph", text |-> text, items |-> <<>>]
          [] type = "ul" -> [type |-> "bulletList", text |-> <<>>,
                             items |-> ListItems(element)]
          [] type = "ol" -> [type |-> "numberList", text |-> <<>>,
                             items |-> ListItems(element)]
          [] OTHER       -> [type |-> "paragraph", text |-> text, items |-> <<>>]

RECURSIVE parseNotesContent(_)
parseNotesContent(elements) ==
    IF elements = <<>> THEN <<>>
    ELSE <<parseElement(Head(elements))>> \o parseNotesContent(Tail(elements))

\* One call of parseNotesContent on the body of the run.
ParseNotes ==
    /\ event.op = "init"
    /\ parsedContent' = parseNotesContent(docBody)
    /\ event' = [op |-> "parseNotesContent", batch |-> <<>>, index |-> 0]
    /\ UNCHANGED <<fileVars, topic, notes, loading, error, fileError, pdfUrlsLive,
                   submits, downloads, downloadName, pdfDoc, docBody>>

(***************************************************************************)
(* generatePDF.  A block of the parsed notes is its type and the number of *)
(* lines pdf.splitTextToSize wraps its text to (for a list, one number per *)
(* item).  The cursor is yPos, the number of pages so far and the text     *)
(* runs placed: the block and item a run belongs to, the number printed    *)
(* before it (0: none or the bullet), its page, the y of its first line,   *)
(* its line count and the line height the code accounts for it.  Lengths   *)
(* are in points; the page height of the a4 format, 841.89 pt, is held in  *)
(* hundredths.                                                             *)
(***************************************************************************)
PageHeight100 == 84189

TextTypes == {"heading1", "heading2", "heading3", "paragraph"}
ListTypes == {"bulletList", "numberList"}

NeedsNewPage(yPos) == yPos * 100 > PageHeight100 - 60 * 100

LineHeight(type) ==
    CASE type = "heading1" -> 20
      [] type = "heading2" -> 18
      [] type = "heading3" -> 16
      [] OTHER             -> 14

SpacingAfter(type) ==
    CASE type = "heading1"  -> 10
      [] type = "heading2"  -> 8
      [] type = "heading3"  -> 6
      [] type = "paragraph" -> 10
      [] OTHER              -> 5

\* The forEach index printed as it is, without the + 1.
ItemNumber_ZeroBased(type, index) == IF type = "numberList" THEN index ELSE 0

ItemNumber(type, index) == IF type = "numberList" THEN index + 1 ELSE 0

BreakPage(cur) ==
    IF NeedsNewPage(cur.yPos)
    THEN [cur EXCEPT !.yPos = 40, !.pages = cur.pages + 1]
    ELSE cur

Place(cur, bi, type, item, number, lines) ==
    [cur EXCEPT
       !.runs = Append(cur.runs,
                       [block |-> bi, type |-> type, item |-> item,
                        number |-> number, page |-> cur.pages, y |-> cur.yPos,
                        lines |-> lines, lineHeight |-> LineHeight(type)]),
       !.yPos = cur.yPos + lines * LineHeight(type) + SpacingAfter(type)]

\* One call of the callback of content.items.forEach((item, index) => ...),
\* index 0-based as in the code.
LayoutItem(cur, bi, block, index) ==
    Place(BreakPage(cur), bi, block.type, index + 1, ItemNumber(block.type, index),
          block.items[index + 1])

\* The callback applied to the items of indices lo..hi in order: the first
\* half of the range, then the second from the cursor the first leaves.  The
\* test on the page count, which never decreases, makes the first half's
\* cursor a value before the second half starts, which keeps the evaluation
\* shallow.
RECURSIVE LayoutItems(_, _, _, _, _)
LayoutItems(cur, bi, block, lo, hi) ==
    IF lo > hi THEN cur
    ELSE IF lo = hi THEN LayoutItem(cur, bi, block, lo)
    ELSE LET mid == (lo + hi) \div 2
             firstHalf == LayoutItems(cur, bi, block, lo, mid)
         IN  IF firstHalf.pages >= cur.pages
             THEN LayoutItems(firstHalf, bi, block, mid + 1, hi)
             ELSE firstHalf

LayoutBlock(cur, bi, block) ==
    LET c == BreakPage(cur)
    IN  IF block.type \in ListTypes
        THEN LET d == LayoutItems(c, bi, block, 0, Len(block.items) - 1)
             IN  [d EXCEPT !.yPos = d.yPos + 5]
        ELSE Place(c, bi, block.type, 0, 0, block.lines)

\* parsedContent.forEach(content => ...): the cursor after the first n blocks.
RECURSIVE LayoutContent(_, _, _)
LayoutContent(cur, content, n) ==
    IF n = 0 THEN cur
    ELSE LayoutBlock(LayoutContent(cur, content, n - 1), n, content[n])

\* yPos after the title line and the date line of the first page.
LayoutStart == [yPos |-> 40 + 25 + 30, pages |-> 1, runs |-> <<>>]

\* The blocks of the combined notes: those of each entry, in order.
RECURSIVE NotesContent(_)
NotesContent(n) ==
    IF n = <<>> THEN <<>> ELSE Head(n).content \o NotesContent(Tail(n))

\* The Preview button is rendered only while notes is non-empty.  rendered
\* is FALSE when the library throws before the blob URL is made.
generatePDF(rendered) ==
    /\ notes # <<>>
    /\ pdfUrlsLive < MaxPdfUrls
    /\ IF rendered
       THEN /\ pdfDoc' = LET d == LayoutContent(LayoutStart, NotesContent(notes),
                                                Len(NotesContent(notes)))
                         IN  [pages |-> d.pages, runs |-> d.runs]
            /\ pdfUrlsLive' = pdfUrlsLive + 1
            /\ UNCHANGED error
       ELSE /\ error' = "Failed to generate PDF. Please try again."
            /\ UNCHANGED <<pdfDoc, pdfUrlsLive>>
    /\ event' = [op |-> "generatePDF", batch |-> <<>>, index |-> 0]
    /\ UNCHANGED <<fileVars, topic, notes, loading, fileError, submits, downloads,
                   downloadName, docBody, parsedContent>>

\* The files of the requests in flight: formData's 'file' of each suspended
\* handleSubmit and handleDownload call.
InFlightFiles ==
    {submits[k].files[submits[k].i] : k \in 1..Len(submits)}
    \cup {downloads[k].file : k \in 1..Len(downloads)}

(***************************************************************************)
(* Inputs.                                                                 *)
(***************************************************************************)
MaxBlocks   == 2    \* blocks of one notes document
MaxLines    == 3    \* wrapped lines of one text block or list item
MaxItems    == 42   \* items of one list
ItemSpread  == 7    \* a list of MaxItems - ItemSpread items ends short of a page
MaxElements == 2    \* top-level elements of one parsed body
MaxTopicLen == 3    \* characters of a topic

\* Lists are empty, of one item, or about a page long: just short of a page,
\* or of the last two counts up to MaxItems.  Their items all wrap to one
\* line or all to MaxLines lines.
ItemCounts == {0, 1, MaxItems - ItemSpread, MaxItems - 1, MaxItems}

BlockInputs ==
    {[type |-> t, lines |-> n, items |-> <<>>] : t \in TextTypes, n \in 1..MaxLines}
    \cup {[type |-> t, lines |-> 0, items |-> [i \in 1..k |-> n]] :
             t \in ListTypes, k \in ItemCounts, n \in {1, MaxLines}}

LayoutInputs == SeqsUpTo(BlockInputs, MaxBlocks)

\* The notes a response carries in the application runs.
AppContents == {<<[type |-> "paragraph", lines |-> 1, items |-> <<>>]>>}

AppTopics == {<<>>, <<" ">>, <<"a">>}

\* The selections and pastes offered in the application runs.
AppBatches == {<<[type |-> "image/png", size |-> MaxFileSize]>>,
               <<[type |-> "image/gif", size |-> MaxFileSize]>>}

TopicChars == {"a", "S", "s", " ", "\\"}

TopicInputs == SeqsUpTo(TopicChars, MaxTopicLen)

TextNode(t) == [isElement |-> FALSE, text |-> t]
ElementNode(t) == [isElement |-> TRUE, text |-> t]

NodeLists ==
    { <<>>,
      <<TextNode(<<" ", "x", " ">>)>>,
      <<ElementNode(<<" ", "a">>), TextNode(<<" ">>), ElementNode(<<"b", " ">>)>>,
      <<TextNode(<<"x">>), ElementNode(<<"y">>)>> }

TagNames == {"H1", "H2", "H3", "P", "UL", "OL", "DIV"}

ElementInputs == [tagName : TagNames, nodes : NodeLists]

BodyInputs == SeqsUpTo(ElementInputs, MaxElements)

(***************************************************************************)
(* The application: the state after the first render, and every handler.   *)
(***************************************************************************)
NoDoc == [pages |-> 0, runs |-> <<>>]

Init ==
    /\ files = <<>>
    /\ topic = <<>>
    /\ notes = <<>>
    /\ loading = FALSE
    /\ error = ""
    /\ fileError = ""
    /\ previewUrls = <<>>
    /\ nextUrl = 1
    /\ liveUrls = {}
    /\ urlBlobs = [u \in {} |-> PngFile]
    /\ pdfUrlsLive = 0
    /\ submits = <<>>
    /\ downloads = <<>>
    /\ downloadName = <<>>
    /\ pdfDoc = NoDoc
    /\ docBody = <<>>
    /\ parsedContent = <<>>
    /\ event = [op |-> "init", batch |-> <<>>, index |-> 0]

Next ==
    \/ \E selectedFiles \in AppBatches : handleFileChange(selectedFiles)
    \/ \E items \in AppBatches : handlePaste(items)
    \/ \E index \in 1..(MaxFiles + 1) : removeFile(index)
    \/ \E value \in AppTopics : setTopic(value)
    \/ handleSubmit
    \/ \E k \in 1..MaxSubmits, content \in AppContents : SubmitResolved(k, content)
    \/ \E k \in 1..MaxSubmits, serverError \in ServerErrors : SubmitRejected(k, serverError)
    \/ handleDownload
    \/ \E k \in 1..(MaxDownloads + 1) : DownloadResolved(k)
    \/ \E k \in 1..(MaxDownloads + 1) : DownloadRejected(k)
    \/ \E rendered \in BOOLEAN : generatePDF(rendered)

Spec == Init /\ [][Next]_vars

(***************************************************************************)
(* The file list under every selection, paste and removal.                 *)
(***************************************************************************)
NextFiles ==
    \/ \E selectedFiles \in BatchInputs : handleFileChange(selectedFiles)
    \/ \E items \in BatchInputs : handlePaste(items)
    \/ \E index \in 1..(MaxFiles + 1) : removeFile(index)

SpecFiles == Init /\ [][NextFiles]_vars

(***************************************************************************)
(* The notes of one generated document, then previews of it.               *)
(***************************************************************************)
\* The state after one file was selected, the topic typed and the notes
\* generated, for the notes content and the topic given.
Generated(content, t) ==
    /\ files = <<PngFile>>
    /\ topic = t
    /\ notes = <<[file |-> PngFile, topic |-> t, content |-> content]>>
    /\ loading = FALSE
    /\ error = ""
    /\ fileError = ""
    /\ previewUrls = <<1>>
    /\ nextUrl = 2
    /\ liveUrls = {1}
    /\ urlBlobs = [u \in {1} |-> PngFile]
    /\ pdfUrlsLive = 0
    /\ submits = <<>>
    /\ downloads = <<>>
    /\ downloadName = <<>>
    /\ pdfDoc = NoDoc
    /\ docBody = <<>>
    /\ parsedContent = <<>>
    /\ event = [op |-> "handleSubmit:resolved", batch |-> <<PngFile>>, index |-> 1]

InitPdf == \E content \in LayoutInputs : Generated(content, <<"a">>)

NextPdf == \E rendered \in BOOLEAN : generatePDF(rendered)

SpecPdf == InitPdf /\ [][NextPdf]_vars

(***************************************************************************)
(* Downloads of generated notes under every topic.                         *)
(***************************************************************************)
InitName ==
    \E t \in TopicInputs, content \in AppContents :
        /\ ~TopicBlank(t)
        /\ Generated(content, t)

NextName ==
    \/ handleDownload
    \/ \E k \in 1..MaxDownloads : DownloadResolved(k)
    \/ \E k \in 1..MaxDownloads : DownloadRejected(k)

SpecName == InitName /\ [][NextName]_vars

(***************************************************************************)
(* Downloads after the notes were generated from one PNG and the topic     *)
(* 'a', under every later change of the files and the topic.               *)
(***************************************************************************)
JpegFile == [type |-> "image/jpeg", size |-> MaxFileSize]

DownloadBatches == {<<PngFile>>, <<JpegFile>>}

DownloadTopics == {<<>>, <<"a">>, <<"a", "s">>}

InitDownload == \E content \in AppContents : Generated(content, <<"a">>)

NextDownload ==
    \/ \E selectedFiles \in DownloadBatches : handleFileChange(selectedFiles)
    \/ \E items \in DownloadBatches : handlePaste(items)
    \/ \E index \in 1..(MaxFiles + 1) : removeFile(index)
    \/ \E value \in DownloadTopics : setTopic(value)
    \/ handleDownload
    \/ \E k \in 1..(MaxDownloads + 1) : DownloadResolved(k)
    \/ \E k \in 1..(MaxDownloads + 1) : DownloadRejected(k)

SpecDownload == InitDownload /\ [][NextDownload]_vars

(***************************************************************************)
(* The parser applied to every body.                                       *)
(***************************************************************************)
InitParse ==
    /\ Init!1 /\ Init!2 /\ Init!3 /\ Init!4 /\ Init!5 /\ Init!6 /\ Init!7
    /\ Init!8 /\ Init!9 /\ Init!10 /\ Init!11 /\ Init!12 /\ Init!13 /\ Init!14
    /\ Init!15
    /\ docBody \in BodyInputs
    /\ parsedContent = <<>>
    /\ event = [op |-> "init", batch |-> <<>>, index |-> 0]

NextParse == ParseNotes

SpecParse == InitParse /\ [][NextParse]_vars

(***************************************************************************)
(* Properties.                                                             *)
(***************************************************************************)
Accepted(file) ==
    /\ file.type \in {"image/jpeg", "image/jpg", "image/png"}
    /\ file.size <= 5 * 1024 * 1024

\* C1: every file held in files, and every file a request in flight carries,
\* is a JPEG, JPG or PNG of at most 5 MB.
C1_OnlyAcceptedFilesHeldOrPosted ==
    \A file \in Range(files) \cup InFlightFiles : Accepted(file)

ExpectedType(tagName) ==
    CASE tagName = "H1" -> "heading1"
      [] tagName = "H2" -> "heading2"
      [] tagName = "H3" -> "heading3"
      [] tagName = "UL" -> "bulletList"
      [] tagName = "OL" -> "numberList"
      [] OTHER          -> "paragraph"

\* The positions of the element nodes among an element's child nodes.
ElementPositions(nodes) == {j \in 1..Len(nodes) : nodes[j].isElement}

\* C2: parseNotesContent maps the N top-level elements to N blocks in source
\* order, each of the type its tag calls for; the items of a list block are
\* the trimmed texts of the list element's child elements, in document order.
C2_ParserMapsEveryElement ==
    event.op = "parseNotesContent" =>
        /\ Len(parsedContent) = Len(docBody)
        /\ \A i \in 1..Len(docBody) :
              LET element == docBody[i]
                  block == parsedContent[i]
                  at == ElementPositions(element.nodes)
              IN  /\ block.type = ExpectedType(element.tagName)
                  /\ block.type \in {"bulletList", "numberList"} =>
                        /\ Len(block.items) = Cardinality(at)
                        /\ \A j \in at :
                              block.items[Cardinality({m \in at : m <= j})]
                                  = Trim(element.nodes[j].text)

C2_Witness ==
    /\ event.op = "parseNotesContent"
    /\ Len(docBody) = MaxElements
    /\ docBody[1].tagName = "OL" /\ Cardinality(ElementPositions(docBody[1].nodes)) = 2
    /\ docBody[2].tagName = "DIV"
    /\ parsedContent[1].type = "numberList" /\ Len(parsedContent[1].items) = 2
    /\ parsedContent[2].type = "paragraph"

UsableBottom100 == PageHeight100 - 60 * 100

LastLineY(run) == run.y + (run.lines - 1) * run.lineHeight

FitsOnFreshPage(run) == (40 + (run.lines - 1) * run.lineHeight) * 100 <= UsableBottom100

\* C3: a heading or paragraph that fits on a fresh page has every line at or
\* above pageHeight - 60, on the page it was placed on.
C3_TextBlockWithinUsableArea ==
    \A i \in 1..Len(pdfDoc.runs) :
        LET run == pdfDoc.runs[i]
        IN  (run.item = 0 /\ FitsOnFreshPage(run)) => LastLineY(run) * 100 <= UsableBottom100

\* The number of one-line items (14 + 5 points each) that start at or above
\* pageHeight - 60 on a fresh page; items of more lines fit fewer.
ItemsPerPage == ((UsableBottom100 - 40 * 100) \div (19 * 100)) + 1

RunsOfBlock(bi) == {i \in 1..Len(pdfDoc.runs) : pdfDoc.runs[i].block = bi}

ListBlocks == {pdfDoc.runs[i].block : i \in {j \in 1..Len(pdfDoc.runs) : pdfDoc.runs[j].item > 0}}

InputMissing == Len(files) = 0 \/ Trim(topic) = <<>>

\* C5: a handleSubmit call with no file or a blank topic issues no request,
\* sets a message and leaves notes and loading alone; a handleDownload call
\* with no file or a blank topic issues no request.
C5_MissingInputBlocksSubmission ==
    [][ /\ (event'.op = "handleSubmit" /\ InputMissing) =>
              /\ submits' = submits /\ downloads' = downloads
              /\ notes' = notes /\ loading' = loading
              /\ IF Len(files) = 0 THEN fileError' # "" ELSE error' # ""
        /\ (event'.op = "handleDownload" /\ InputMissing) =>
              /\ submits' = submits /\ downloads' = downloads
      ]_vars

C5_Witness ==
    /\ event.op = "handleSubmit"
    /\ Len(files) > 0 /\ topic # <<>> /\ Trim(topic) = <<>>
    /\ error = "Please enter a subject/topic"
    /\ submits = <<>> /\ ~loading

\* C6: when a request of handleSubmit fails, the call ends with notes empty,
\* a message in error, loading false and no request of it left in flight.
C6_FailureAbandonsGeneration ==
    [][ event'.op = "handleSubmit:rejected" =>
            /\ notes' = <<>>
            /\ error' # ""
            /\ loading' = FALSE
            /\ submits' = <<>>
      ]_vars

\* The request of the second file failed after the first file's succeeded.
C6_Witness ==
    /\ event.op = "handleSubmit:rejected"
    /\ event.index = 2
    /\ notes = <<>> /\ error # "" /\ ~loading /\ submits = <<>>

LastBatchValid == SelectSeq(event.batch, Accepted)

\* C7: after a selection or paste holding both rejected and valid files, the
\* valid files are the last entries of files, in order, and fileError
\* reports the rejection.
C7_MixedBatchAcceptedAndReported ==
    ( /\ event.op \in {"handleFileChange", "handlePaste"}
      /\ LastBatchValid # <<>>
      /\ Len(LastBatchValid) < Len(event.batch) ) =>
        /\ fileError # ""
        /\ Len(files) >= Len(LastBatchValid)
        /\ SubSeq(files, Len(files) - Len(LastBatchValid) + 1, Len(files)) = LastBatchValid

\* A run of whitespace replaced by one '-'.
RECURSIVE CollapseWhitespace(_)
CollapseWhitespace(s) ==
    IF s = <<>> THEN <<>>
    ELSE IF Head(s) \in WhiteSpace
    THEN <<"-">> \o CollapseWhitespace(TrimLeft(s))
    ELSE <<Head(s)>> \o CollapseWhitespace(Tail(s))

\* C8: the name of a downloaded file is the topic of the download in lower
\* case, each run of whitespace replaced by one '-', followed by
\* '-notes.pdf'; it holds no whitespace.
C8_DownloadNameCollapsesWhitespace ==
    event.op = "handleDownload:resolved" =>
        /\ downloadName = CollapseWhitespace(ToLowerCase(topic)) \o NotesPdfSuffix
        /\ \A i \in 1..Len(downloadName) : downloadName[i] \notin WhiteSpace

\* C9: once no PDF operation is in progress, every object URL created for a
\* PDF has been revoked.
C9_PdfUrlsReleased == downloads = <<>> => pdfUrlsLive = 0

NotesFiles == {notes[i].file : i \in 1..Len(notes)}

\* C11: when handleDownload issues its request, the topic it posts is the
\* topic the displayed notes were generated with, and the image it posts is
\* one of the images they were generated from.
C11_DownloadPostsNotesInputs ==
    [][ (event'.op = "handleDownload" /\ Len(downloads') > Len(downloads)) =>
            LET posted == downloads'[Len(downloads')]
            IN  /\ posted.topic = notes[1].topic
                /\ posted.file \in NotesFiles
      ]_vars

\* C12: previewUrls is as long as files, and entry i is a live object URL
\* that resolves to file i.
C12_PreviewsMatchFilesAndLive ==
    /\ Len(previewUrls) = Len(files)
    /\ \A i \in 1..Len(previewUrls) :
          /\ previewUrls[i] \in liveUrls
          /\ urlBlobs[previewUrls[i]] = files[i]

====
